---- MODULE Spec2Model ----
(***************************************************************************)
(* Model of icons/generate_icons.py: the import guard, create_icon(size,   *)
(* filename) statement by statement, and the __main__ driver loop.         *)
(*                                                                         *)
(* The imaging library is the environment.  What it can do differently     *)
(* from run to run is drawn nondeterministically: whether the library can  *)
(* be imported, which of the two named fonts can be opened, whether the    *)
(* canvas allocation and the file write succeed.  Its drawing calls are    *)
(* recorded as the primitives the code asks for, in order, with the        *)
(* arguments the code computes.                                            *)
(***************************************************************************)
EXTENDS Integers, Sequences, FiniteSets, TLC

VARIABLES
    pilAvailable,   \* environment: "from PIL import ..." succeeds
    fontsAvailable, \* environment: the set of font files truetype() can open
    fs,             \* the working directory: file name -> file
    pc,             \* position of the program
    exitStatus,     \* process exit status, -1 while running
    stdout,         \* console output, one element per line
    sizes,          \* __main__: the list iterated
    idx,            \* __main__: position of the for loop in sizes (0: not started)
    size,           \* create_icon: argument
    filename,       \* create_icon: argument
    img,            \* create_icon: the canvas
    font,           \* create_icon: the local variable font
    probes,         \* history: fonts the current call tried to load, in order
    calls,          \* history: every invocation of create_icon, in order
    renders,        \* history: every completed img.save, in order
    error           \* the exception that ended the program, "none" otherwise

vars == <<pilAvailable, fontsAvailable, fs, pc, exitStatus, stdout, sizes, idx,
          size, filename, img, font, probes, calls, renders, error>>

----------------------------------------------------------------------------
(* Bounds of the harness specifications. *)

\* RenderSpec calls create_icon with every size in 1..MaxSize.
MaxSize == 130

\* RepeatSpec calls create_icon at most MaxCalls times.
MaxCalls == 3

----------------------------------------------------------------------------
(* Values *)

Max(a, b) == IF a >= b THEN a ELSE b

HELVETICA == "/System/Library/Fonts/Helvetica.ttc"
ARIAL == "arial.ttf"
DEFAULT_FONT == "load_default"

WHITE == <<255, 255, 255>>
BLUE == <<0, 123, 255>>

NoImage == [mode |-> "none", width |-> 0, height |-> 0, prims |-> <<>>]
NoFont == [name |-> "unbound", size |-> 0]

\* Files of the working directory.
Absent == [kind |-> "absent", image |-> NoImage]
Stale == [kind |-> "stale", image |-> NoImage]
Partial == [kind |-> "partial", image |-> NoImage]
PNG(image) == [kind |-> "PNG", image |-> image]

\* f"icon{size}.png"
icon_name(s) == "icon" \o ToString(s) \o ".png"

\* f"Created {filename} ({size}x{size})"
created_line(f, s) ==
    "Created " \o f \o " (" \o ToString(s) \o "x" \o ToString(s) \o ")"

\* "Error: Pillow not installed. Install it with: pip install Pillow"
install_hint == <<"Error: Pillow not installed. Install it with: pip install Pillow">>

\* Mutant of success_message: the summary without its leading newline.
success_message_no_newline == <<"Icons generated successfully!">>

\* "\nIcons generated successfully!": the text is split at its newline.
success_message == <<"", "Icons generated successfully!">>

\* print(text): writes the text and a newline; a text holding k newlines,
\* given as its k+1 segments, ends k+1 lines of output.
print(out, segments) == out \o segments

\* sizes = [16, 48, 128]
SIZES == <<16, 48, 128>>

Paths == {icon_name(SIZES[i]) : i \in DOMAIN SIZES}

----------------------------------------------------------------------------
(* create_icon: the values it computes *)

margin(s) == s \div 4
center(s) == s \div 2
radius(s) == center(s) - margin(s)

\* Mutant of Image_new: a canvas half the height.
Image_new_not_square(s) ==
    [mode |-> "RGB", width |-> s, height |-> s \div 2,
     prims |-> <<[kind |-> "fill", color |-> BLUE]>>]

\* Mutant of Image_new: one canvas shared by all calls, which keeps what the
\* call before it drew.
Image_new_shared(s) ==
    [mode |-> "RGB", width |-> s, height |-> s,
     prims |-> <<[kind |-> "fill", color |-> BLUE]>>
               \o (IF renders = <<>> THEN <<>>
                   ELSE Tail(renders[Len(renders)].file.image.prims))]

\* Image.new('RGB', (size, size), color=(0, 123, 255))
Image_new(s) ==
    [mode |-> "RGB", width |-> s, height |-> s,
     prims |-> <<[kind |-> "fill", color |-> BLUE]>>]

\* Mutant of ellipse: the stroke width's floor is 1.
ellipse_thin(s) ==
    [kind |-> "ellipse",
     box |-> <<margin(s), margin(s), s - margin(s), s - margin(s)>>,
     outline |-> WHITE,
     width |-> Max(1, s \div 32)]

\* draw.ellipse([margin, margin, size - margin, size - margin],
\*              outline=(255, 255, 255), width=max(2, size // 32))
ellipse(s) ==
    [kind |-> "ellipse",
     box |-> <<margin(s), margin(s), s - margin(s), s - margin(s)>>,
     outline |-> WHITE,
     width |-> Max(2, s \div 32)]

\* Mutant of takes_text_branch: the threshold excluded.
takes_text_branch_strict(s) == s > 48

\* if size >= 48:  and  if size < 48:
takes_text_branch(s) == s >= 48
takes_arc_branch(s) == s < 48

font_size(s) == s \div 3

\* Mutant of text: the threshold excluded.
text_strict(s) == IF s > 64 THEN "SEO" ELSE "S"

\* text = "SEO" if size >= 64 else "S"
text(s) == IF s >= 64 THEN "SEO" ELSE "S"

StrLen(t) == IF t = "SEO" THEN 3 ELSE IF t = "S" THEN 1 ELSE 0

\* draw.textbbox((0, 0), text, font=font): the library's measurement, a
\* function of the text and the font alone.  Nominal metrics: a scalable font
\* of point size p has glyphs p high and p/2 wide, the bitmap font 11 by 6.
textbbox(t, f) ==
    IF f.name = DEFAULT_FONT
    THEN <<0, 0, 6 * StrLen(t), 11>>
    ELSE <<0, 0, StrLen(t) * (f.size \div 2), f.size>>

\* draw.text((text_x, text_y), text, fill=(255, 255, 255), font=font)
draw_text(s, f) ==
    LET t == text(s)
        bbox == textbbox(t, f)
        text_width == bbox[3] - bbox[1]
        text_height == bbox[4] - bbox[2]
        text_x == (s - text_width) \div 2
        text_y == (s - text_height) \div 2
    IN [kind |-> "text", xy |-> <<text_x, text_y>>, text |-> t,
        fill |-> WHITE, font |-> f]

line_length(s) == s \div 3
line_width(s) == Max(1, s \div 16)

\* draw.arc([center - line_length, ..., center + line_length],
\*          start=45, end=315, fill=(255, 255, 255), width=line_width)
arc(s) ==
    [kind |-> "arc",
     box |-> <<center(s) - line_length(s), center(s) - line_length(s),
               center(s) + line_length(s), center(s) + line_length(s)>>,
     start |-> 45, end |-> 315, fill |-> WHITE, width |-> line_width(s)]

Draw(image, prim) == [image EXCEPT !.prims = Append(@, prim)]

----------------------------------------------------------------------------
(* Control *)

\* Mutant of Raise: the caller swallows the exception and goes on.
Raise_swallowed(e) ==
    /\ pc' = "returned"
    /\ error' = e
    /\ UNCHANGED exitStatus

\* An exception nothing catches: the traceback goes to stderr, the
\* interpreter exits with status 1.
Raise(e) ==
    /\ pc' = "crashed"
    /\ error' = e
    /\ exitStatus' = 1

\* Entry to create_icon(s, f): fresh locals.
Enter(s, f) ==
    /\ size' = s
    /\ filename' = f
    /\ img' = NoImage
    /\ font' = NoFont
    /\ probes' = <<>>
    /\ calls' = Append(calls, [size |-> s, filename |-> f])
    /\ pc' = "new"

Env == <<pilAvailable, fontsAvailable>>
Locals == <<size, filename, img, font, probes>>
Driver == <<sizes, idx>>

----------------------------------------------------------------------------
(* Module level: lines 7-11 and 67-71 *)

\* Mutant of ImportGuard: the handler prints the hint and does not exit.
ImportGuard_no_exit ==
    /\ pc = "start"
    /\ IF pilAvailable
       THEN UNCHANGED stdout
       ELSE stdout' = print(stdout, install_hint)
    /\ pc' = "main"
    /\ UNCHANGED <<Env, fs, exitStatus, Driver, Locals, calls, renders, error>>

\* try: from PIL import ...  except ImportError: print(...); exit(1)
ImportGuard ==
    /\ pc = "start"
    /\ IF pilAvailable
       THEN /\ pc' = "main"
            /\ UNCHANGED <<stdout, exitStatus>>
       ELSE /\ stdout' = print(stdout, install_hint)
            /\ exitStatus' = 1
            /\ pc' = "exited"
    /\ UNCHANGED <<Env, fs, Driver, Locals, calls, renders, error>>

\* if __name__ == "__main__": sizes = [16, 48, 128]
Main ==
    /\ pc = "main"
    /\ sizes' = SIZES
    /\ idx' = 0
    /\ pc' = "for"
    /\ UNCHANGED <<Env, fs, exitStatus, stdout, Locals, calls, renders, error>>

\* Mutant of For: the loop stops one element early.
For_stops_early ==
    /\ pc \in {"for", "returned"}
    /\ idx' = idx + 1
    /\ IF idx + 1 < Len(sizes)
       THEN Enter(sizes[idx + 1], icon_name(sizes[idx + 1]))
       ELSE /\ pc' = "summary"
            /\ UNCHANGED <<Locals, calls>>
    /\ UNCHANGED <<Env, fs, exitStatus, stdout, sizes, renders, error>>

\* for size in sizes: create_icon(size, f"icon{size}.png")
For ==
    /\ pc \in {"for", "returned"}
    /\ idx' = idx + 1
    /\ IF idx + 1 <= Len(sizes)
       THEN Enter(sizes[idx + 1], icon_name(sizes[idx + 1]))
       ELSE /\ pc' = "summary"
            /\ UNCHANGED <<Locals, calls>>
    /\ UNCHANGED <<Env, fs, exitStatus, stdout, sizes, renders, error>>

\* print("\nIcons generated successfully!"), then the end of the script
Summary ==
    /\ pc = "summary"
    /\ stdout' = print(stdout, success_message)
    /\ exitStatus' = 0
    /\ pc' = "done"
    /\ UNCHANGED <<Env, fs, Driver, Locals, calls, renders, error>>

----------------------------------------------------------------------------
(* create_icon: lines 13-65 *)

\* img = Image.new(...); draw = ImageDraw.Draw(img)
NewImage ==
    /\ pc = "new"
    /\ \E ok \in BOOLEAN :
         IF ok
         THEN /\ img' = Image_new(size)
              /\ pc' = "ellipse"
              /\ UNCHANGED <<exitStatus, error>>
         ELSE /\ Raise("MemoryError")
              /\ UNCHANGED img
    /\ UNCHANGED <<Env, fs, stdout, Driver, size, filename, font, probes,
                   calls, renders>>

\* draw.ellipse(...), then the test of "if size >= 48" and, when it fails,
\* of "if size < 48"
DrawEllipse ==
    /\ pc = "ellipse"
    /\ img' = Draw(img, ellipse(size))
    /\ pc' = IF takes_text_branch(size) THEN "font1"
             ELSE IF takes_arc_branch(size) THEN "arc" ELSE "save"
    /\ UNCHANGED <<Env, fs, exitStatus, stdout, Driver, size, filename, font,
                   probes, calls, renders, error>>

\* try: font = ImageFont.truetype("/System/Library/Fonts/Helvetica.ttc", font_size)
\* except: (go on to the second font)
FontPrimary ==
    /\ pc = "font1"
    /\ probes' = Append(probes, HELVETICA)
    /\ IF HELVETICA \in fontsAvailable
       THEN /\ font' = [name |-> HELVETICA, size |-> font_size(size)]
            /\ pc' = "text"
       ELSE /\ pc' = "font2"
            /\ UNCHANGED font
    /\ UNCHANGED <<Env, fs, exitStatus, stdout, Driver, size, filename, img,
                   calls, renders, error>>

\* Mutant of FontSecondary: the failure of the second font is not caught.
FontSecondary_uncaught ==
    /\ pc = "font2"
    /\ probes' = Append(probes, ARIAL)
    /\ IF ARIAL \in fontsAvailable
       THEN /\ font' = [name |-> ARIAL, size |-> font_size(size)]
            /\ pc' = "text"
            /\ UNCHANGED <<exitStatus, error>>
       ELSE /\ Raise("OSError")
            /\ UNCHANGED font
    /\ UNCHANGED <<Env, fs, stdout, Driver, size, filename, img,
                   calls, renders>>

\* try: font = ImageFont.truetype("arial.ttf", font_size)
\* except: (go on to the default font)
FontSecondary ==
    /\ pc = "font2"
    /\ probes' = Append(probes, ARIAL)
    /\ IF ARIAL \in fontsAvailable
       THEN /\ font' = [name |-> ARIAL, size |-> font_size(size)]
            /\ pc' = "text"
       ELSE /\ pc' = "font3"
            /\ UNCHANGED font
    /\ UNCHANGED <<Env, fs, exitStatus, stdout, Driver, size, filename, img,
                   calls, renders, error>>

\* font = ImageFont.load_default()
FontDefault ==
    /\ pc = "font3"
    /\ probes' = Append(probes, DEFAULT_FONT)
    /\ font' = [name |-> DEFAULT_FONT, size |-> 0]
    /\ pc' = "text"
    /\ UNCHANGED <<Env, fs, exitStatus, stdout, Driver, size, filename, img,
                   calls, renders, error>>

\* text = ...; bbox = draw.textbbox(...); draw.text(...), then the test of
\* "if size < 48"
DrawText ==
    /\ pc = "text"
    /\ img' = Draw(img, draw_text(size, font))
    /\ pc' = IF takes_arc_branch(size) THEN "arc" ELSE "save"
    /\ UNCHANGED <<Env, fs, exitStatus, stdout, Driver, size, filename, font,
                   probes, calls, renders, error>>

\* draw.arc(...)
DrawArc ==
    /\ pc = "arc"
    /\ img' = Draw(img, arc(size))
    /\ pc' = "save"
    /\ UNCHANGED <<Env, fs, exitStatus, stdout, Driver, size, filename, font,
                   probes, calls, renders, error>>

\* img.save(filename, 'PNG'): the file holds the canvas, or the write fails
\* and the file named is as it was or cut short.
Save ==
    /\ pc = "save"
    /\ \/ /\ fs' = [fs EXCEPT ![filename] = PNG(img)]
          /\ renders' = Append(renders,
                 [size |-> size, filename |-> filename, file |-> PNG(img)])
          /\ pc' = "created"
          /\ UNCHANGED <<exitStatus, error>>
       \/ /\ \E left \in {fs[filename], Partial} :
                fs' = [fs EXCEPT ![filename] = left]
          /\ Raise("OSError")
          /\ UNCHANGED renders
    /\ UNCHANGED <<Env, stdout, Driver, Locals, calls>>

\* print(f"Created {filename} ({size}x{size})"), then return
PrintCreated ==
    /\ pc = "created"
    /\ stdout' = print(stdout, <<created_line(filename, size)>>)
    /\ pc' = "returned"
    /\ UNCHANGED <<Env, fs, exitStatus, Driver, Locals, calls, renders, error>>

create_icon ==
    \/ NewImage
    \/ DrawEllipse
    \/ FontPrimary
    \/ FontSecondary
    \/ FontDefault
    \/ DrawText
    \/ DrawArc
    \/ Save
    \/ PrintCreated

----------------------------------------------------------------------------
(* The program *)

EnvInit ==
    /\ fontsAvailable \in SUBSET {HELVETICA, ARIAL}
    /\ fs \in [Paths -> {Absent, Stale}]

ProgramInit ==
    /\ exitStatus = -1
    /\ stdout = <<>>
    /\ sizes = <<>>
    /\ idx = 0
    /\ size = 0
    /\ filename = ""
    /\ img = NoImage
    /\ font = NoFont
    /\ probes = <<>>
    /\ calls = <<>>
    /\ renders = <<>>
    /\ error = "none"

Init ==
    /\ pilAvailable \in BOOLEAN
    /\ EnvInit
    /\ ProgramInit
    /\ pc = "start"

Next ==
    \/ ImportGuard
    \/ Main
    \/ For
    \/ Summary
    \/ create_icon

Spec == Init /\ [][Next]_vars

----------------------------------------------------------------------------
(* create_icon called directly, the library imported *)

HarnessInit ==
    /\ pilAvailable = TRUE
    /\ fontsAvailable \in SUBSET {HELVETICA, ARIAL}
    /\ fs = [p \in Paths |-> Absent]
    /\ ProgramInit
    /\ pc = "idle"

\* One call with any size in 1..MaxSize.
CallAny ==
    /\ pc = "idle"
    /\ \E s \in 1..MaxSize, f \in Paths : Enter(s, f)
    /\ UNCHANGED <<Env, fs, exitStatus, stdout, Driver, renders, error>>

RenderNext ==
    \/ CallAny
    \/ create_icon

RenderSpec == HarnessInit /\ [][RenderNext]_vars

\* Up to MaxCalls calls, one after the other, with sizes on both sides of
\* the two thresholds.
RepeatSizes == {16, 48, 64}

CallAgain ==
    /\ pc \in {"idle", "returned"}
    /\ Len(calls) < MaxCalls
    /\ \E s \in RepeatSizes, f \in Paths : Enter(s, f)
    /\ UNCHANGED <<Env, fs, exitStatus, stdout, Driver, renders, error>>

RepeatNext ==
    \/ CallAgain
    \/ create_icon

RepeatSpec == HarnessInit /\ [][RepeatNext]_vars

----------------------------------------------------------------------------
(* Properties *)

IsPrefix(s, t) == Len(s) <= Len(t) /\ s = SubSeq(t, 1, Len(s))

ExpectedCalls ==
    <<[size |-> 16, filename |-> "icon16.png"],
      [size |-> 48, filename |-> "icon48.png"],
      [size |-> 128, filename |-> "icon128.png"]>>

ExpectedCreated ==
    <<"Created icon16.png (16x16)",
      "Created icon48.png (48x48)",
      "Created icon128.png (128x128)">>

SummaryLine == "Icons generated successfully!"

SummaryPrinted == \E i \in DOMAIN stdout : stdout[i] = SummaryLine

Kinds(image, k) == {i \in DOMAIN image.prims : image.prims[i].kind = k}

\* The canvas holds everything create_icon draws: the call is at img.save
\* or past it.
Drawn == pc \in {"save", "created", "returned"}

\* C1: the calls of the renderer made so far are always the first calls of
\* (16, "icon16.png"), (48, "icon48.png"), (128, "icon128.png"); the run that
\* ends has made all three, each once; and the completion message is on the
\* console only when all three renders have written their files, that of 128
\* being on disk.
C1_DriverOrder ==
    /\ IsPrefix(calls, ExpectedCalls)
    /\ pc = "done" => calls = ExpectedCalls
    /\ SummaryPrinted =>
          /\ calls = ExpectedCalls
          /\ [i \in DOMAIN renders |-> renders[i].filename]
                = <<"icon16.png", "icon48.png", "icon128.png">>
          /\ fs["icon128.png"].kind = "PNG"
          /\ fs["icon128.png"] = renders[3].file

C1_Witness == pc = "done" /\ SummaryPrinted /\ Len(calls) = 3

\* C2: when a render has failed, the program has ended with a non-zero
\* status and takes no further step; the failed call is the last call made;
\* the console holds the "Created" lines of the earlier sizes and nothing
\* else; and every file an earlier iteration wrote is on disk as written.
C2_FailurePropagates ==
    error # "none" =>
       /\ pc = "crashed"
       /\ error \in {"MemoryError", "OSError"}
       /\ exitStatus = 1
       /\ ~ENABLED Next
       /\ IsPrefix(calls, ExpectedCalls)
       /\ Len(calls) = Len(renders) + 1
       /\ stdout = SubSeq(ExpectedCreated, 1, Len(renders))
       /\ ~SummaryPrinted
       /\ \A i \in DOMAIN renders :
             /\ renders[i].filename = ExpectedCalls[i].filename
             /\ fs[renders[i].filename] = renders[i].file

C2_Witness ==
    /\ pc = "crashed"
    /\ error = "OSError"
    /\ Len(renders) = 1
    /\ size = 48
    /\ fs["icon16.png"].kind = "PNG"

\* C3: when the imaging library cannot be imported, the renderer is never
\* called and no file is written, and once the guard has run the console
\* holds the installation hint alone and the program has exited with
\* status 1.
C3_MissingDependency ==
    ~pilAvailable =>
       /\ calls = <<>>
       /\ renders = <<>>
       /\ \A f \in Paths : fs[f] \in {Absent, Stale}
       /\ pc \in {"start", "exited"}
       /\ pc = "exited" =>
             /\ stdout = install_hint
             /\ exitStatus # 0
             /\ exitStatus = 1
       /\ pc = "start" => stdout = <<>>

C3_Witness == ~pilAvailable /\ pc = "exited" /\ Len(stdout) = 1

\* C4 as stated: a successful run prints four lines, the three "Created"
\* lines in the order 16, 48, 128 and then the summary line.
C4_FourLines ==
    pc = "done" =>
       /\ Len(stdout) = 4
       /\ SubSeq(stdout, 1, 3) = ExpectedCreated
       /\ stdout[4] = SummaryLine

\* C4 amended: a successful run prints five lines, the three "Created" lines
\* in the order 16, 48, 128, then an empty line, then the summary line.
C4_FiveLines ==
    pc = "done" =>
       /\ exitStatus = 0
       /\ Len(stdout) = 5
       /\ SubSeq(stdout, 1, 3) = ExpectedCreated
       /\ stdout[4] = ""
       /\ stdout[5] = SummaryLine

C4_Witness == pc = "done" /\ Len(stdout) = 5 /\ exitStatus = 0

\* C5: a successful run has written three files, icon16.png, icon48.png and
\* icon128.png, and each is on disk as an RGB image whose width and height
\* are the size in its name.
C5_OutputFiles ==
    pc = "done" =>
       /\ Len(renders) = 3
       /\ {renders[i].filename : i \in DOMAIN renders}
             = {"icon16.png", "icon48.png", "icon128.png"}
       /\ \A e \in {<<"icon16.png", 16>>, <<"icon48.png", 48>>,
                    <<"icon128.png", 128>>} :
             /\ fs[e[1]].kind = "PNG"
             /\ fs[e[1]].image.mode = "RGB"
             /\ fs[e[1]].image.width = e[2]
             /\ fs[e[1]].image.height = e[2]

C5_Witness ==
    /\ pc = "done"
    /\ fs["icon128.png"].kind = "PNG"
    /\ fs["icon128.png"].image.width = 128

\* C6: once create_icon has drawn, the canvas holds the outer circle and,
\* on top of it, one arc and no text when size < 48, one text and no arc
\* when size >= 48; the file it then writes holds that canvas.
C6_OneTreatment ==
    Drawn =>
       /\ Cardinality(Kinds(img, "ellipse")) = 1
       /\ size < 48 =>
             /\ Cardinality(Kinds(img, "arc")) = 1
             /\ Kinds(img, "text") = {}
       /\ size >= 48 =>
             /\ Cardinality(Kinds(img, "text")) = 1
             /\ Kinds(img, "arc") = {}
       /\ \A i \in Kinds(img, "arc") \cup Kinds(img, "text") :
             \A j \in Kinds(img, "ellipse") : j < i
       /\ pc \in {"created", "returned"} => fs[filename] = PNG(img)

C6_Witness ==
    /\ pc = "returned"
    /\ size = 48
    /\ Cardinality(Kinds(img, "text")) = 1
    /\ Kinds(img, "arc") = {}

\* C7: every text the canvas holds is "S" when 48 <= size < 64 and "SEO"
\* when size >= 64, whichever font was resolved.
C7_Label ==
    \A i \in Kinds(img, "text") :
       /\ img.prims[i].text \in {"S", "SEO"}
       /\ size >= 48
       /\ (size < 64) => img.prims[i].text = "S"
       /\ (size >= 64) => img.prims[i].text = "SEO"
       /\ img.prims[i].font = font

C7_Witness ==
    /\ pc = "returned"
    /\ size = 63
    /\ font.name = DEFAULT_FONT
    /\ \E i \in Kinds(img, "text") : img.prims[i].text = "S"

ExpectedProbes ==
    IF HELVETICA \in fontsAvailable THEN <<HELVETICA>>
    ELSE IF ARIAL \in fontsAvailable THEN <<HELVETICA, ARIAL>>
    ELSE <<HELVETICA, ARIAL, DEFAULT_FONT>>

\* C8: the fonts are tried in the order primary, secondary, generic and no
\* further than the first that loads; for size >= 48, whatever fonts are
\* available, the call reaches the drawing of the text with the font that
\* loaded, draws the label of C7 and writes the file holding it; the only
\* failures of a call are those of the canvas allocation and the file write.
C8_FontFallback ==
    /\ IsPrefix(probes, <<HELVETICA, ARIAL, DEFAULT_FONT>>)
    /\ size < 48 => probes = <<>>
    /\ (size >= 48 /\ (pc = "text" \/ Drawn)) =>
          /\ probes = ExpectedProbes
          /\ font.name = probes[Len(probes)]
    /\ (size >= 48 /\ Drawn) =>
          \E i \in DOMAIN img.prims :
             /\ img.prims[i].kind = "text"
             /\ img.prims[i].text = (IF size < 64 THEN "S" ELSE "SEO")
             /\ img.prims[i].font.name = ExpectedProbes[Len(ExpectedProbes)]
    /\ (size >= 48 /\ pc \in {"created", "returned"}) =>
          /\ fs[filename].kind = "PNG"
          /\ Kinds(fs[filename].image, "text") # {}
    /\ pc = "crashed" =>
          \/ error = "MemoryError" /\ img = NoImage
          \/ /\ error = "OSError"
             /\ Cardinality(Kinds(img, "text") \cup Kinds(img, "arc")) = 1

C8_Witness ==
    /\ pc = "returned"
    /\ size >= 48
    /\ fontsAvailable = {}
    /\ probes = <<HELVETICA, ARIAL, DEFAULT_FONT>>
    /\ fs[filename].kind = "PNG"

\* C9: any two completed renders of the same size wrote the same file
\* content, whatever was rendered in between and under whatever name, and
\* when a render completes the file it names holds what that render wrote.
C9_Idempotent ==
    /\ \A i, j \in DOMAIN renders :
          renders[i].size = renders[j].size =>
             renders[i].file = renders[j].file
    /\ pc \in {"created", "returned"} =>
          /\ renders # <<>>
          /\ fs[filename] = renders[Len(renders)].file
          /\ \A i \in DOMAIN renders :
                (renders[i].size = size /\ renders[i].filename = filename)
                   => fs[filename] = renders[i].file

C9_Witness ==
    /\ pc = "returned"
    /\ Len(renders) = 3
    /\ renders[1].size = renders[3].size
    /\ renders[1].filename = renders[3].filename
    /\ renders[2].size # renders[1].size

\* C10: the outer circle is the first primitive drawn on the background and
\* its stroke width w is at least 2, is 2 for every size below 96 (so for
\* 16), is 4 for 128, and from 64 on is the integer quotient of size by 32.
C10_StrokeWidth ==
    Len(img.prims) >= 2 =>
       LET w == img.prims[2].width IN
       /\ img.prims[2].kind = "ellipse"
       /\ w >= 2
       /\ size < 96 => w = 2
       /\ size = 16 => w = 2
       /\ size = 128 => w = 4
       /\ size >= 64 => (32 * w <= size /\ size < 32 * (w + 1))

C10_Witness ==
    /\ pc = "returned"
    /\ size = 128
    /\ img.prims[2].width = 4

====
